---- MODULE Spec2Model ----
(***************************************************************************)
(* A model of sptools (src/sptools/sptools.py): the paged drains of the    *)
(* Gateway (spotipy client `sp`), the backup orchestrator writing          *)
(* timestamped snapshot records into the TinyDB tables `saved_tracks` and  *)
(* `playlists`, the most-recent-backup-time resolver, the reconciliation   *)
(* that builds the "liked but not playlisted" playlist, and main() with    *)
(* its output-file guard.                                                  *)
(*                                                                         *)
(* Data representation.                                                    *)
(*   - A track is its id (a number); its uri is TrackUri(id).  A saved-    *)
(*     track item and a playlist-track item are the id of item["track"].   *)
(*   - A string (a backup_time) is the sequence of its code points.        *)
(*   - None (Python's None, JSON's null) is the empty sequence.            *)
(*   - A table is the sequence of its documents in insertion order.        *)
(*     Every document carries a ghost field `run`: the number of the       *)
(*     backup() invocation that inserted it.                               *)
(* Invocations of main() are sequential (one process at a time); any       *)
(* Gateway call may raise, which aborts the invocation.                    *)
(***************************************************************************)
EXTENDS Integers, Sequences, FiniteSets, TLC

VARIABLES
    gwSaved,        \* Gateway: the user's saved tracks, in the Gateway's order
    gwPlaylists,    \* Gateway: the user's playlists [id, owner, tracks]
    clock,          \* wall clock: the time the next datetime.now() returns
    fileState,      \* the file at json_path: "absent", "old" or "written"
    saved_tracks,   \* TinyDB table "saved_tracks"
    playlists,      \* TinyDB table "playlists"
    pc,             \* position of the running invocation; "done" when it has
                    \* ended, "idle" when no process is left
    command,        \* main(command, ...)
    json_path,      \* main(json_path=...): TRUE when a path is given
    overwrite,      \* main(overwrite=...); both are read at the end of main() only
    only_mine,      \* backup(only_mine=...)
    backup_time,    \* the local `backup_time` of backup() / of the reconciliation
    queue,          \* backup_all_playlists: playlists still to visit
    todo,           \* reconciliation: ids of track_ids_to_add not fetched yet
    tracks_to_add,  \* reconciliation: tracks fetched so far, in fetch order
    playlist,       \* reconciliation: the id of the playlist it created
    calls,          \* Gateway calls made by the running reconciliation, in order
    result,         \* what the last call returned
    outcome,        \* how the last invocation ended
    inserted,       \* ghost: documents inserted by the running invocation
    runs            \* ghost: one entry per backup() invocation

vars == <<gwSaved, gwPlaylists, clock, fileState, saved_tracks, playlists, pc,
          command, json_path, overwrite, only_mine, backup_time, queue, todo,
          tracks_to_add, playlist, calls, result, outcome, inserted, runs>>

(***************************************************************************)
(* Bounds of the model.                                                    *)
(***************************************************************************)
MaxTrack == 2
MaxSaved == 2
MaxPlaylists == 2
MaxPlaylistTracks == 1
MaxRuns == 2
MaxCreated == 1
MaxItems == 205
EmbeddedLimit == 100

(***************************************************************************)
(* Program constants.                                                      *)
(***************************************************************************)
SAVED_TRACKS_MAX_LIMIT == 50
PLAYLISTS_MAX_LIMIT == 50
PLAYLIST_TRACKS_MAX_LIMIT == 100

None == <<>>
TrackIds == 1..MaxTrack
Me == "me"
Owners == {Me, "other"}

Min(a, b) == IF a < b THEN a ELSE b
Iota(n) == [i \in 1..n |-> i]
Range(s) == {s[i] : i \in 1..Len(s)}

(***************************************************************************)
(* The Gateway's paged reads: page (limit, offset) of a fixed collection   *)
(* holds items [offset, offset+limit) and `next` is null exactly when no   *)
(* item lies beyond it.                                                    *)
(***************************************************************************)
Page(coll, limit, offset) ==
    [items |-> SubSeq(coll, offset + 1, Min(offset + limit, Len(coll))),
     next  |-> IF offset + limit < Len(coll) THEN <<offset + limit>> ELSE None]

(***************************************************************************)
(* The drain loop `while True: ...` shared by get_saved_tracks,            *)
(* get_all_playlists and get_playlist_tracks.  `fetches` is a ghost count  *)
(* of the page fetches made.                                               *)
(***************************************************************************)
\* A faulty loop: the test of `next` precedes tracks.extend.
RECURSIVE DrainBreakFirst(_, _, _, _, _)
DrainBreakFirst(coll, MAX_LIMIT, offset, tracks, fetches) ==
    LET response == Page(coll, MAX_LIMIT, offset)
    IN  IF response.next = None
        THEN [items |-> tracks, fetches |-> fetches + 1]
        ELSE DrainBreakFirst(coll, MAX_LIMIT, offset + MAX_LIMIT,
                             tracks \o response.items, fetches + 1)

RECURSIVE Drain(_, _, _, _, _)
Drain(coll, MAX_LIMIT, offset, tracks, fetches) ==
    LET response == Page(coll, MAX_LIMIT, offset)
        extended == tracks \o response.items
    IN  IF response.next = None
        THEN [items |-> extended, fetches |-> fetches + 1]
        ELSE Drain(coll, MAX_LIMIT, offset + MAX_LIMIT, extended, fetches + 1)

get_saved_tracks == Drain(gwSaved, SAVED_TRACKS_MAX_LIMIT, 0, <<>>, 0)

\* The playlist objects of the listing carry no track items.
PlaylistMeta(p) == [id |-> p.id, owner |-> p.owner]
get_all_playlists ==
    Drain([i \in 1..Len(gwPlaylists) |-> PlaylistMeta(gwPlaylists[i])],
          PLAYLISTS_MAX_LIMIT, 0, <<>>, 0)

GwPlaylist(playlist_id) ==
    CHOOSE p \in Range(gwPlaylists) : p.id = playlist_id

get_playlist_tracks(playlist_id) ==
    Drain(GwPlaylist(playlist_id).tracks, PLAYLIST_TRACKS_MAX_LIMIT, 0, <<>>, 0)

\* sp.playlist(playlist_id): the metadata with the first page of tracks embedded.
SpPlaylist(playlist_id) ==
    LET p == GwPlaylist(playlist_id)
    IN  [id |-> p.id, owner |-> p.owner, tracks |-> Page(p.tracks, EmbeddedLimit, 0)]

\* A faulty get_playlist: the drain starts after the embedded page.
get_playlist_offset_skips_first(playlist_id) ==
    LET playlist_info == SpPlaylist(playlist_id)
    IN  IF playlist_info.tracks.next # None
        THEN LET d == Drain(GwPlaylist(playlist_id).tracks,
                            PLAYLIST_TRACKS_MAX_LIMIT, EmbeddedLimit, <<>>, 0)
             IN  [info |-> [playlist_info EXCEPT !.tracks.items = d.items],
                  fetches |-> d.fetches]
        ELSE [info |-> playlist_info, fetches |-> 0]

get_playlist(playlist_id) ==
    LET playlist_info == SpPlaylist(playlist_id)
    IN  IF playlist_info.tracks.next # None
        THEN LET d == get_playlist_tracks(playlist_id)
             IN  [info |-> [playlist_info EXCEPT !.tracks.items = d.items],
                  fetches |-> d.fetches]
        ELSE [info |-> playlist_info, fetches |-> 0]

(***************************************************************************)
(* Timestamps.  A datetime is [s |-> seconds since midnight, us |->        *)
(* microsecond]; the date part of the ISO-8601 text is a fixed-width       *)
(* prefix and the model covers one day, so only the time part is kept.     *)
(* datetime.isoformat(): "HH:MM:SS", followed by ".ffffff" exactly when    *)
(* the microsecond is not 0.                                               *)
(***************************************************************************)
FracDigits == 6
MicrosPerSec == 10 ^ FracDigits

Digit(d) == 48 + d
Pad(n, w) == [i \in 1..w |-> Digit((n \div (10 ^ (w - i))) % 10)]

IsoFormat(t) ==
    Pad(t.s \div 3600, 2) \o <<58>> \o Pad((t.s \div 60) % 60, 2) \o <<58>>
        \o Pad(t.s % 60, 2)
        \o (IF t.us = 0 THEN <<>> ELSE <<46>> \o Pad(t.us, FracDigits))

RECURSIVE Num(_)
Num(str) ==
    IF str = <<>> THEN 0
    ELSE 10 * Num(SubSeq(str, 1, Len(str) - 1)) + (str[Len(str)] - 48)

\* datetime.fromisoformat() on the texts isoformat() writes.
FromIsoFormat(str) ==
    [s  |-> 3600 * Num(SubSeq(str, 1, 2)) + 60 * Num(SubSeq(str, 4, 5))
                + Num(SubSeq(str, 7, 8)),
     us |-> IF Len(str) > 8 THEN Num(SubSeq(str, 10, Len(str))) ELSE 0]

\* Python's order of strings: by code point, a proper prefix first.
StrLess(a, b) ==
    \E k \in 1..(Len(b)) :
        /\ \A i \in 1..(k - 1) : i <= Len(a) /\ a[i] = b[i]
        /\ k - 1 <= Len(a)
        /\ (k > Len(a) \/ a[k] < b[k])

StrMax(S) == CHOOSE m \in S : \A x \in S : ~StrLess(m, x)
StrMin(S) == CHOOSE m \in S : \A x \in S : ~StrLess(x, m)

TimeLess(a, b) == a.s < b.s \/ (a.s = b.s /\ a.us < b.us)

\* The clock after some time has passed: one microsecond or one second.
Later(t) ==
    { IF t.us = MicrosPerSec - 1 THEN [s |-> t.s + 1, us |-> 0]
                                 ELSE [s |-> t.s, us |-> t.us + 1],
      [s |-> t.s + 1, us |-> t.us] }

ClockStart == [s |-> 9 * 3600 + 59 * 60 + 59, us |-> MicrosPerSec - 1]

(***************************************************************************)
(* The snapshot store.                                                     *)
(***************************************************************************)
\* table.insert(document), for each document of docs in order.
\* (faulty: the table is cleared before the write)
TableInsertCleared(table, docs) == docs
TableInsert(table, docs) == table \o docs

\* `backup_time = datetime.datetime.now().isoformat() if backup_time is None
\*  else backup_time` of backup_saved_tracks and backup_all_playlists.
\* (faulty: the timestamp is computed anew in each phase)
ResolveBackupTimeRecomputed(arg, now) == IsoFormat(now)
ResolveBackupTime(arg, now) == IF arg = None THEN IsoFormat(now) ELSE arg

\* table.search(Query().backup_time == t)
\* (faulty: the generation is not filtered)
SearchAnyTime(table, t) == table
Search(table, t) == SelectSeq(table, LAMBDA doc : doc.backup_time = t)

\* get_most_recent_backup_time(): max() raises ValueError on an empty
\* sequence, else the datetime parsed from the greatest backup_time text.
\* (faulty: a default instead of the ValueError; the least instead of the greatest)
get_most_recent_backup_time_or_midnight ==
    LET times == {saved_tracks[i].backup_time : i \in 1..Len(saved_tracks)}
    IN  IF times = {} THEN [raised |-> FALSE, value |-> [s |-> 0, us |-> 0]]
        ELSE [raised |-> FALSE, value |-> FromIsoFormat(StrMax(times))]

get_most_recent_backup_time_min ==
    LET times == {saved_tracks[i].backup_time : i \in 1..Len(saved_tracks)}
    IN  IF times = {} THEN [raised |-> TRUE, value |-> [s |-> 0, us |-> 0]]
        ELSE [raised |-> FALSE, value |-> FromIsoFormat(StrMin(times))]

get_most_recent_backup_time ==
    LET times == {saved_tracks[i].backup_time : i \in 1..Len(saved_tracks)}
    IN  IF times = {} THEN [raised |-> TRUE, value |-> [s |-> 0, us |-> 0]]
        ELSE [raised |-> FALSE, value |-> FromIsoFormat(StrMax(times))]

\* Lines 178-194 of the reconciliation: the ids liked but not playlisted.
\* (faulty: the playlists of the latest playlists generation, whatever t)
TrackIdsToAddLatestPlaylists(t) ==
    LET sel_tracks == Search(saved_tracks, t)
        times == {playlists[i].backup_time : i \in 1..Len(playlists)}
        sel_playlists == IF times = {} THEN <<>> ELSE Search(playlists, StrMax(times))
        playlist_track_ids ==
            UNION {Range(sel_playlists[i].tracks.items) : i \in 1..Len(sel_playlists)}
        saved_track_ids == {sel_tracks[i].track : i \in 1..Len(sel_tracks)}
    IN  saved_track_ids \ playlist_track_ids

TrackIdsToAdd(t) ==
    LET sel_tracks == Search(saved_tracks, t)
        sel_playlists == Search(playlists, t)
        playlist_track_ids ==
            UNION {Range(sel_playlists[i].tracks.items) : i \in 1..Len(sel_playlists)}
        saved_track_ids == {sel_tracks[i].track : i \in 1..Len(sel_tracks)}
    IN  saved_track_ids \ playlist_track_ids

TrackUri(track_id) == <<"spotify:track", track_id>>
PlaylistName(t) == <<"Liked but not playlisted", t>>

\* The creation follows the loop over track_ids_to_add.
\* (faulty: the creation does not wait for the loop)
LoopDoneAnyTime == TRUE
LoopDone == todo = {}

CurrentlyPlaying ==
    [item |-> [name |-> "Song", artists |-> <<[name |-> "A"], [name |-> "B"]>>,
               album |-> [name |-> "Album"]]]

get_now_playing(full) ==
    IF ~full
    THEN [title |-> CurrentlyPlaying.item.name,
          artists |-> [i \in 1..Len(CurrentlyPlaying.item.artists) |->
                          CurrentlyPlaying.item.artists[i].name],
          album_name |-> CurrentlyPlaying.item.album.name]
    ELSE CurrentlyPlaying

(***************************************************************************)
(* Initial states: an empty store, no invocation running, and a Gateway    *)
(* holding some saved tracks (each track once) and some playlists, the     *)
(* first of them the user's own.                                           *)
(***************************************************************************)
SeqsUpTo(S, n) == UNION {[1..k -> S] : k \in 0..n}
SavedLists ==
    {l \in SeqsUpTo(TrackIds, MaxSaved) :
        \A i, j \in 1..Len(l) : i # j => l[i] # l[j]}
PlaylistLists ==
    {l \in SeqsUpTo([id : 1..MaxPlaylists, owner : Owners,
                     tracks : SeqsUpTo(TrackIds, MaxPlaylistTracks)], MaxPlaylists) :
        \A i \in 1..Len(l) :
            l[i].id = i /\ l[i].owner = (IF i = 1 THEN Me ELSE "other")}

\* No process: the locals of main() and the ghosts of an invocation.
NoProcess ==
    /\ pc = "idle"
    /\ command = "none"
    /\ json_path = FALSE
    /\ overwrite = FALSE
    /\ only_mine = FALSE
    /\ backup_time = None
    /\ queue = <<>>
    /\ todo = {}
    /\ tracks_to_add = <<>>
    /\ playlist = None
    /\ calls = <<>>
    /\ result = None
    /\ outcome = "none"
    /\ inserted = 0

Init ==
    /\ gwSaved \in SavedLists
    /\ gwPlaylists \in PlaylistLists
    /\ fileState \in {"absent", "old"}
    /\ clock = ClockStart
    /\ saved_tracks = <<>>
    /\ playlists = <<>>
    /\ runs = <<>>
    /\ NoProcess

gateway == <<gwSaved, gwPlaylists>>

\* The playlists the reconciliation created on the Gateway so far, and the id
\* the Gateway gives the next one.
Created == Cardinality({i \in 1..Len(gwPlaylists) : gwPlaylists[i].id > MaxPlaylists})
NewPlaylistId == MaxPlaylists + 1 + Created
store == <<saved_tracks, playlists>>
args == <<command, json_path, overwrite, only_mine>>
reconciliation == <<todo, tracks_to_add, playlist, calls>>

\* main(command, ...) is entered.
Enter(cmd) ==
    /\ pc = "idle"
    /\ command' = cmd
    /\ UNCHANGED <<json_path, overwrite>>

(***************************************************************************)
(* backup(only_mine).  main() calls backup() with the default only_mine =  *)
(* False; only_mine = True is the function's other use.                    *)
(***************************************************************************)
backup(om) ==
    /\ Enter("backup")
    /\ Len(runs) < MaxRuns
    /\ only_mine' = om
    /\ outcome' = "running"
    /\ backup_time' = IsoFormat(clock)
    /\ clock' \in Later(clock)
    /\ runs' = Append(runs, [at |-> clock, nSaved |-> Len(gwSaved), savedDone |-> FALSE])
    /\ pc' = "backup_saved_tracks"
    /\ UNCHANGED <<gateway, store, fileState, queue, reconciliation, result, inserted>>

backup_saved_tracks ==
    /\ pc = "backup_saved_tracks"
    /\ LET t == ResolveBackupTime(backup_time, clock)
           tracks == get_saved_tracks.items
           docs == [i \in 1..Len(tracks) |->
                       [track |-> tracks[i], backup_time |-> t, run |-> Len(runs)]]
       IN  /\ saved_tracks' = TableInsert(saved_tracks, docs)
           /\ inserted' = inserted + Len(docs)
    /\ runs' = [runs EXCEPT ![Len(runs)].savedDone = TRUE]
    /\ pc' = "backup_all_playlists"
    /\ UNCHANGED <<gateway, clock, fileState, playlists, args, backup_time, queue,
                   reconciliation, result, outcome>>

backup_all_playlists ==
    /\ pc = "backup_all_playlists"
    /\ backup_time' = ResolveBackupTime(backup_time, clock)
    /\ queue' = get_all_playlists.items
    /\ pc' = "backup_playlist"
    /\ UNCHANGED <<gateway, clock, fileState, store, args, reconciliation, result,
                   outcome, inserted, runs>>

\* One iteration of the loop over the playlists: a playlist of another owner
\* is skipped under only_mine, any other is fetched and inserted.
backup_playlist ==
    /\ pc = "backup_playlist"
    /\ queue # <<>>
    /\ LET listed == Head(queue)
       IN  IF only_mine /\ listed.owner # Me
           THEN UNCHANGED <<playlists, inserted>>
           ELSE LET info == get_playlist(listed.id).info
                    doc == [id |-> info.id, owner |-> info.owner,
                            tracks |-> info.tracks, backup_time |-> backup_time,
                            run |-> Len(runs)]
                IN  /\ playlists' = TableInsert(playlists, <<doc>>)
                    /\ inserted' = inserted + 1
    /\ queue' = Tail(queue)
    /\ UNCHANGED <<gateway, clock, fileState, saved_tracks, pc, args, backup_time,
                   reconciliation, result, outcome, runs>>

\* backup() returns None to main().
backup_returns ==
    /\ pc = "backup_playlist"
    /\ queue = <<>>
    /\ result' = None
    /\ pc' = "output"
    /\ UNCHANGED <<gateway, clock, fileState, store, args, backup_time, queue,
                   reconciliation, outcome, inserted, runs>>

(***************************************************************************)
(* make_playlist_with_liked_but_not_playlisted_tracks()                    *)
(***************************************************************************)
\* No record carries a backup_time: get_most_recent_backup_time raises.
compile_no_backup ==
    /\ Enter("compile_unplaylisted")
    /\ get_most_recent_backup_time.raised
    /\ outcome' = "ValueError"
    /\ pc' = "done"
    /\ UNCHANGED <<gateway, clock, fileState, store, only_mine, backup_time,
                   queue, reconciliation, result, inserted, runs>>

\* Lines 171-194: the target generation and the ids to add.
compile_start ==
    /\ Enter("compile_unplaylisted")
    /\ ~get_most_recent_backup_time.raised
    /\ Created < MaxCreated
    /\ LET t == IsoFormat(get_most_recent_backup_time.value)
       IN  /\ backup_time' = t
           /\ todo' = TrackIdsToAdd(t)
    /\ outcome' = "running"
    /\ pc' = "fetch_tracks"
    /\ UNCHANGED <<gateway, clock, fileState, store, only_mine, queue,
                   tracks_to_add, playlist, calls, result, inserted, runs>>

\* One iteration of `for track_id in track_ids_to_add`, in the set's order.
fetch_track ==
    /\ pc = "fetch_tracks"
    /\ \E track_id \in todo :
        /\ calls' = Append(calls, <<"track", track_id>>)
        /\ tracks_to_add' = Append(tracks_to_add, track_id)
        /\ todo' = todo \ {track_id}
    /\ UNCHANGED <<gateway, clock, fileState, store, pc, args, backup_time, queue,
                   playlist, result, outcome, inserted, runs>>

\* sp.me() and sp.user_playlist_create(): the Gateway holds one more playlist
\* of the user's, empty, and answers with it.
create_playlist ==
    /\ pc = "fetch_tracks"
    /\ LoopDone
    /\ calls' = calls \o <<<<"me">>, <<"user_playlist_create", PlaylistName(backup_time)>>>>
    /\ gwPlaylists' = <<[id |-> NewPlaylistId, owner |-> Me, tracks |-> <<>>]>> \o gwPlaylists
    /\ playlist' = <<NewPlaylistId>>
    /\ pc' = "add_items"
    /\ UNCHANGED <<gwSaved, clock, fileState, store, args, backup_time, queue, todo,
                   tracks_to_add, result, outcome, inserted, runs>>

\* sp.playlist_add_items(): the Gateway appends the tracks of the uris.
add_items ==
    /\ pc = "add_items"
    /\ LET tracks_to_add_uri == [i \in 1..Len(tracks_to_add) |-> TrackUri(tracks_to_add[i])]
       IN  /\ calls' = Append(calls, <<"playlist_add_items", tracks_to_add_uri>>)
           /\ gwPlaylists' = [i \in 1..Len(gwPlaylists) |->
                 IF gwPlaylists[i].id = playlist[1]
                 THEN [gwPlaylists[i] EXCEPT !.tracks =
                          @ \o [k \in 1..Len(tracks_to_add_uri) |-> tracks_to_add_uri[k][2]]]
                 ELSE gwPlaylists[i]]
    /\ result' = tracks_to_add
    /\ pc' = "output"
    /\ UNCHANGED <<gwSaved, clock, fileState, store, args, backup_time, queue, todo,
                   tracks_to_add, playlist, outcome, inserted, runs>>

(***************************************************************************)
(* now_playing                                                             *)
(***************************************************************************)
now_playing(full) ==
    /\ Enter("now_playing")
    /\ result' = get_now_playing(full)
    /\ outcome' = "running"
    /\ pc' = "output"
    /\ UNCHANGED <<gateway, clock, fileState, store, only_mine, backup_time, queue,
                   reconciliation, inserted, runs>>

\* sp.currently_playing() raises.
now_playing_error ==
    /\ Enter("now_playing")
    /\ outcome' = "GatewayError"
    /\ pc' = "done"
    /\ UNCHANGED <<gateway, clock, fileState, store, only_mine, backup_time, queue,
                   reconciliation, result, inserted, runs>>

(***************************************************************************)
(* A Gateway call raises: the error propagates and the invocation ends.    *)
(***************************************************************************)
CallsGateway ==
    \/ pc \in {"backup_saved_tracks", "backup_all_playlists", "add_items"}
    \/ pc = "backup_playlist" /\ queue # <<>>
    \/ pc = "fetch_tracks"

gateway_error ==
    /\ CallsGateway
    /\ outcome' = "GatewayError"
    /\ pc' = "done"
    /\ UNCHANGED <<gateway, clock, fileState, store, args, backup_time, queue,
                   reconciliation, result, inserted, runs>>

(***************************************************************************)
(* The end of main(): the result is written to json_path, unless the file  *)
(* exists and overwrite is off.  json_path and overwrite are arguments of  *)
(* main() that nothing reads before this point.                            *)
(***************************************************************************)
output_none ==
    /\ pc = "output"
    /\ json_path' = FALSE
    /\ outcome' = "ok"
    /\ pc' = "done"
    /\ UNCHANGED <<gateway, clock, fileState, store, command, overwrite, only_mine,
                   backup_time, queue, reconciliation, result, inserted, runs>>

output_file_exists ==
    /\ pc = "output"
    /\ json_path' = TRUE
    /\ overwrite' = FALSE
    /\ fileState # "absent" /\ ~overwrite'
    /\ outcome' = "FileExistsError"
    /\ pc' = "done"
    /\ UNCHANGED <<gateway, clock, fileState, store, command, only_mine,
                   backup_time, queue, reconciliation, result, inserted, runs>>

output_write(ow) ==
    /\ pc = "output"
    /\ json_path' = TRUE
    /\ overwrite' = ow
    /\ ~(fileState # "absent" /\ ~ow)
    /\ fileState' = "written"
    /\ outcome' = "ok"
    /\ pc' = "done"
    /\ UNCHANGED <<gateway, clock, store, command, only_mine,
                   backup_time, queue, reconciliation, result, inserted, runs>>

\* The process is gone, and its locals with it.
exit ==
    /\ pc = "done"
    /\ pc' = "idle"
    /\ command' = "none"
    /\ json_path' = FALSE
    /\ overwrite' = FALSE
    /\ only_mine' = FALSE
    /\ backup_time' = None
    /\ queue' = <<>>
    /\ todo' = {}
    /\ tracks_to_add' = <<>>
    /\ playlist' = None
    /\ calls' = <<>>
    /\ result' = None
    /\ outcome' = "none"
    /\ inserted' = 0
    /\ UNCHANGED <<gateway, clock, fileState, store, runs>>

(***************************************************************************)
(* The user likes one more track between two invocations.                  *)
(***************************************************************************)
user_likes ==
    /\ pc = "idle"
    /\ Len(gwSaved) < MaxSaved
    /\ \E t \in TrackIds \ Range(gwSaved) : gwSaved' = <<t>> \o gwSaved
    /\ UNCHANGED <<gwPlaylists, clock, fileState, store, pc, args, backup_time,
                   queue, reconciliation, result, outcome, inserted, runs>>

Next ==
    \/ \E om \in BOOLEAN : backup(om)
    \/ backup_saved_tracks
    \/ backup_all_playlists
    \/ backup_playlist
    \/ backup_returns
    \/ compile_no_backup
    \/ compile_start
    \/ fetch_track
    \/ create_playlist
    \/ add_items
    \/ \E full \in BOOLEAN : now_playing(full)
    \/ now_playing_error
    \/ gateway_error
    \/ output_none
    \/ output_file_exists
    \/ \E ow \in BOOLEAN : output_write(ow)
    \/ exit
    \/ user_likes

Spec == Init /\ [][Next]_vars

(***************************************************************************)
(* The drains and get_playlist as functions of the Gateway's content: the  *)
(* Gateway holds n saved tracks and n playlists, the first playlist with   *)
(* n tracks and the others with none, for every n up to MaxItems; each     *)
(* action calls one function and keeps what it returns in `result`.        *)
(***************************************************************************)
InitDrain ==
    /\ \E n \in 0..MaxItems :
        /\ gwSaved = Iota(n)
        /\ gwPlaylists = [i \in 1..n |->
              [id |-> i, owner |-> Me, tracks |-> IF i = 1 THEN Iota(n) ELSE <<>>]]
    /\ fileState = "absent"
    /\ clock = ClockStart
    /\ saved_tracks = <<>>
    /\ playlists = <<>>
    /\ runs = <<>>
    /\ NoProcess

Returns(name, value) ==
    /\ command' = name
    /\ result' = value
    /\ UNCHANGED <<gateway, clock, fileState, store, pc, json_path, overwrite,
                   only_mine, backup_time, queue, reconciliation, outcome,
                   inserted, runs>>

call_get_saved_tracks ==
    /\ pc = "idle"
    /\ Returns("get_saved_tracks", get_saved_tracks)

call_get_all_playlists ==
    /\ pc = "idle"
    /\ Returns("get_all_playlists", get_all_playlists)

call_get_playlist_tracks ==
    \E id \in {1, 2} \cap (1..Len(gwPlaylists)) :
        Returns("get_playlist_tracks", [id |-> id] @@ get_playlist_tracks(id))

call_get_playlist ==
    \E id \in {1, 2} \cap (1..Len(gwPlaylists)) :
        Returns("get_playlist", get_playlist(id))

NextDrain ==
    \/ call_get_saved_tracks
    \/ call_get_all_playlists
    \/ call_get_playlist_tracks
    \/ call_get_playlist

SpecDrain == InitDrain /\ [][NextDrain]_vars

(***************************************************************************)
(* Definitions the properties are stated with: they read the tables and    *)
(* the call log directly.                                                  *)
(***************************************************************************)
IsPrefix(a, b) == Len(a) <= Len(b) /\ SubSeq(b, 1, Len(a)) = a

\* Page fetches a collection of n items takes in pages of p.
PagesNeeded(n, p) == IF n = 0 THEN 1 ELSE (n + p - 1) \div p

\* B: the track ids of the saved_tracks records of generation t.
GenSaved(t) ==
    {saved_tracks[i].track : i \in {j \in 1..Len(saved_tracks) :
                                       saved_tracks[j].backup_time = t}}

\* A: the track ids of the track items of the playlists records of generation t.
GenPlaylisted(t) ==
    UNION {Range(playlists[i].tracks.items) :
              i \in {j \in 1..Len(playlists) : playlists[j].backup_time = t}}

\* The Gateway calls of the log that change the Gateway.
MutationCalls ==
    SelectSeq(calls, LAMBDA c : c[1] \in {"user_playlist_create", "playlist_add_items"})

\* The reconciliation has resolved its target generation and is past line 194.
Reconciling ==
    /\ command = "compile_unplaylisted"
    /\ pc \in {"fetch_tracks", "add_items", "output", "done"}
    /\ outcome # "ValueError"

\* The reconciliation has made its last Gateway call and returned.
Reconciled ==
    /\ command = "compile_unplaylisted"
    /\ pc \in {"output", "done"}
    /\ outcome \in {"running", "ok", "FileExistsError"}

C9_PlaylistFetch ==
    command = "get_playlist" =>
        LET tracks == gwPlaylists[result.info.id].tracks
            embedded == Page(tracks, EmbeddedLimit, 0)
        IN  /\ result.info.tracks.items = tracks
            /\ embedded.next = None =>
                  result.fetches = 0 /\ result.info.tracks.items = embedded.items
            /\ embedded.next # None =>
                  result.fetches = PagesNeeded(Len(tracks), PLAYLIST_TRACKS_MAX_LIMIT)

\* A playlist longer than the embedded page has been fetched by a drain of
\* two pages or more.
C9_Witness ==
    /\ command = "get_playlist"
    /\ result.fetches >= 2
    /\ Len(result.info.tracks.items) > EmbeddedLimit

(***************************************************************************)
(* C2.  Reconciliation: with T the target backup_time, B the track ids of  *)
(* the saved_tracks records of T and A those of the track items of the     *)
(* playlists records of T, a reconciliation that returns has issued        *)
(* exactly one create-playlist call followed by exactly one add-items      *)
(* call, whose uris are one per id of D = B \ A and nothing else, and it   *)
(* returns the fetched tracks of D; with B a subset of A the playlist is   *)
(* still created and the add-items call carries no uri.                    *)
(***************************************************************************)
C2_Reconciliation ==
    Reconciled =>
        LET D == GenSaved(backup_time) \ GenPlaylisted(backup_time)
            uris == calls[Len(calls)][2]
        IN  /\ MutationCalls =
                  << <<"user_playlist_create", PlaylistName(backup_time)>>,
                     <<"playlist_add_items", uris>> >>
            /\ Len(uris) = Cardinality(D)
            /\ Range(uris) = {TrackUri(id) : id \in D}
            /\ Len(result) = Cardinality(D)
            /\ Range(result) = D
            /\ D = {} => uris = <<>>

\* A reconciliation has returned with D and A both non-empty while a
\* playlist record of another generation holds a track of D.
C2_Witness ==
    /\ Reconciled
    /\ result # <<>>
    /\ GenPlaylisted(backup_time) # {}
    /\ \E i \in 1..Len(playlists) :
          /\ playlists[i].backup_time # backup_time
          /\ Range(playlists[i].tracks.items) \cap Range(result) # {}

(***************************************************************************)
(* C3.  Backup run timestamp: every record a run of backup() inserted, in  *)
(* the saved_tracks table and in the playlists table, carries the          *)
(* backup_time computed at the start of that run, never one computed       *)
(* later in the run.                                                       *)
(***************************************************************************)
C3_RunTimestamp ==
    /\ \A i \in 1..Len(saved_tracks) :
          saved_tracks[i].backup_time = IsoFormat(runs[saved_tracks[i].run].at)
    /\ \A i \in 1..Len(playlists) :
          playlists[i].backup_time = IsoFormat(runs[playlists[i].run].at)

\* The second run has inserted records into both tables.
C3_Witness ==
    /\ \E i \in 1..Len(saved_tracks) : saved_tracks[i].run = 2
    /\ \E i \in 1..Len(playlists) : playlists[i].run = 2

(***************************************************************************)
(* C4.  Backup is append-only: no step deletes or modifies a record of     *)
(* either table; so every run that wrote its saved tracks left as many     *)
(* saved_tracks records under its timestamp as the Gateway held saved      *)
(* tracks, and two runs against N saved tracks leave 2N records.           *)
(***************************************************************************)
RECURSIVE SavedWritten(_)
SavedWritten(r) ==
    IF r = 0 THEN 0
    ELSE SavedWritten(r - 1) + (IF runs[r].savedDone THEN runs[r].nSaved ELSE 0)

C4_Counts ==
    /\ \A r \in 1..Len(runs) :
          runs[r].savedDone =>
              Cardinality({i \in 1..Len(saved_tracks) :
                  saved_tracks[i].backup_time = IsoFormat(runs[r].at)}) = runs[r].nSaved
    /\ Len(saved_tracks) = SavedWritten(Len(runs))

C4_AppendOnly ==
    /\ [][IsPrefix(saved_tracks, saved_tracks') /\ IsPrefix(playlists, playlists')]_vars
    /\ []C4_Counts

\* Two complete runs against the same non-empty saved tracks.
C4_Witness ==
    /\ Len(runs) = 2
    /\ pc = "done" /\ command = "backup" /\ outcome = "ok"
    /\ runs[1].savedDone /\ runs[1].nSaved > 0 /\ runs[2].nSaved = runs[1].nSaved
    /\ Len(saved_tracks) = 2 * runs[1].nSaved
    /\ \E i \in 1..Len(playlists) : playlists[i].run = 1

(***************************************************************************)
(* C5.  Reconciliation abort ordering: the create-playlist call is made    *)
(* only after the track fetch has succeeded for every id of D; when a      *)
(* fetch fails the reconciliation ends with that error having called       *)
(* neither create-playlist nor add-items; no step of a reconciliation      *)
(* changes the store.                                                      *)
(***************************************************************************)
C5_Order ==
    /\ (Reconciling /\ MutationCalls # <<>>) =>
          /\ todo = {}
          /\ Range(tracks_to_add) = GenSaved(backup_time) \ GenPlaylisted(backup_time)
          /\ \A i \in 1..Len(tracks_to_add) : calls[i] = <<"track", tracks_to_add[i]>>
    /\ (Reconciling /\ outcome = "GatewayError" /\ todo # {}) =>
          MutationCalls = <<>> /\ inserted = 0

C5_AbortOrdering ==
    /\ []C5_Order
    /\ [][command' = "compile_unplaylisted" => store' = store]_vars

\* The second track fetch of a reconciliation failed.
C5_Witness ==
    /\ Reconciling
    /\ outcome = "GatewayError"
    /\ todo # {}
    /\ tracks_to_add # <<>>

(***************************************************************************)
(* C6.  Most recent backup time: with at least one saved_tracks record,    *)
(* the reconciliation's target generation is the greatest backup_time of   *)
(* the saved_tracks records in the order of strings, which is the          *)
(* backup_time of the run that started last among those with records.      *)
(***************************************************************************)
C6_MostRecent ==
    Reconciling =>
        /\ \E i \in 1..Len(saved_tracks) : saved_tracks[i].backup_time = backup_time
        /\ \A i \in 1..Len(saved_tracks) :
              /\ ~StrLess(backup_time, saved_tracks[i].backup_time)
              /\ ~TimeLess(FromIsoFormat(backup_time), runs[saved_tracks[i].run].at)
        /\ \E i \in 1..Len(saved_tracks) :
              backup_time = IsoFormat(runs[saved_tracks[i].run].at)

\* The target was resolved among two generations, one timestamp with a
\* fraction and one without.
C6_Witness ==
    /\ Reconciling
    /\ \E i, j \in 1..Len(saved_tracks) :
          Len(saved_tracks[i].backup_time) # Len(saved_tracks[j].backup_time)

(***************************************************************************)
(* C7.  No backup: with no saved_tracks record carrying a backup_time,     *)
(* compile_unplaylisted fails at the timestamp resolution, having made no  *)
(* Gateway call and left the store as it was.                              *)
(***************************************************************************)
C7_Failed ==
    outcome = "ValueError" =>
        /\ command = "compile_unplaylisted"
        /\ saved_tracks = <<>>
        /\ calls = <<>>
        /\ inserted = 0

C7_NoBackup ==
    /\ []C7_Failed
    /\ [][(saved_tracks = <<>> /\ pc = "idle" /\ command' = "compile_unplaylisted") =>
              (outcome' = "ValueError" /\ pc' = "done" /\ calls' = <<>>
                  /\ store' = store)]_vars

\* The reconciliation failed while the playlists table held records.
C7_Witness ==
    /\ outcome = "ValueError"
    /\ playlists # <<>>

(***************************************************************************)
(* C8.  Output-file guard: when json_path names an existing file and       *)
(* overwrite is off, main() raises the file-exists failure with the file   *)
(* unmodified and with no write made by the invocation: no record          *)
(* inserted, no playlist created, no items added.                          *)
(***************************************************************************)
C8_OutputGuard ==
    [][outcome' = "FileExistsError" =>
          /\ fileState' = fileState
          /\ inserted' = 0
          /\ MutationCalls' = <<>>]_vars

(***************************************************************************)
(* C10.  Partial generation: a reconciliation whose target generation T    *)
(* has no playlists record (the backup that wrote T's saved tracks ended   *)
(* before it wrote a playlist) does not fail: started with a record in    *)
(* saved_tracks it goes on to the track fetches, and its D is the whole    *)
(* set of saved-track ids of T, whatever the playlists records of other    *)
(* generations hold.                                                       *)
(***************************************************************************)
C10_FullDifference ==
    (Reconciling /\ \A i \in 1..Len(playlists) : playlists[i].backup_time # backup_time) =>
        todo \cup Range(tracks_to_add) = GenSaved(backup_time)

====
